---------------------------- MODULE Spec2Model ----------------------------
(***************************************************************************)
(* Model of the chat client in frontend/src/App.tsx.  The file holds two   *)
(* App components: variant "A" (lines 24-327, with an error banner, a      *)
(* response.ok check in fetchMessages and a refetch after each send) and   *)
(* variant "B" (lines 349-741, with an optimistic user message).  One run  *)
(* of the model is one mounted component of one variant, together with the *)
(* requests it has in flight and the backend that answers them.            *)
(*                                                                         *)
(* Strings are sequences of tokens: the user's text is a sequence of       *)
(* characters, fixed texts of the code are one token each.                 *)
(***************************************************************************)
EXTENDS Integers, Sequences, FiniteSets, TLC

VARIABLES
    variant,              \* "A" or "B": which App component is mounted
    messages,             \* useState<Message[]>([])
    input,                \* useState('')
    conversations,        \* useState<Conversation[]>([])
    currentConversation,  \* useState<Conversation | null>(null)
    isLoading,            \* useState(false)
    error,                \* useState<string>('')   (variant A only)
    net,                  \* the fetches awaited, each with its continuation's locals
    dbConversations,      \* backend: the stored conversations
    dbMessages,           \* backend: the stored messages, oldest first
    now,                  \* what Date.now() gives the next handleSend
    nSends,               \* sends started so far
    nClicks,              \* conversation selections so far
    ev,                   \* history: what the last step did
    hist                  \* history: what the sends and list fetches came to

vars == <<variant, messages, input, conversations, currentConversation,
          isLoading, error, net, dbConversations, dbMessages, now,
          nSends, nClicks, ev, hist>>

-----------------------------------------------------------------------------
(* Bounds of the model *)

MaxInputLen == 1
MaxSends == 2
MaxClicks == 1

-----------------------------------------------------------------------------
(* Values *)

Variants == {"A", "B"}

\* null
Null == [tag |-> "null"]

\* The JSON body of a non-2xx response: an object, neither an array nor a
\* Conversation nor a Message.
ErrBody == [tag |-> "error", detail |-> <<"detail">>]

\* x.id where x is no Conversation: undefined
Undefined == -1

\* currentConversation?.id || 0
NoId == 0

Chars == {" ", "a"}

RECURSIVE SeqsUpTo(_)
SeqsUpTo(n) ==
    IF n = 0 THEN {<<>>}
    ELSE LET S == SeqsUpTo(n - 1)
         IN  S \cup {Append(s, c) : s \in {t \in S : Len(t) = n - 1}, c \in Chars}

\* What the user can have typed in the textarea
Inputs == SeqsUpTo(MaxInputLen)

IsConversation(c) == "id" \in DOMAIN c

\* c?.id
ConvId(c) == IF IsConversation(c) THEN c.id ELSE Undefined

-----------------------------------------------------------------------------
(* Pure functions of the code *)

IsSpace(c) == c = " "

RECURSIVE TrimStart(_)
TrimStart(s) ==
    IF s = <<>> THEN <<>>
    ELSE IF IsSpace(Head(s)) THEN TrimStart(Tail(s))
    ELSE s

RECURSIVE TrimEnd(_)
TrimEnd(s) ==
    IF s = <<>> THEN <<>>
    ELSE IF IsSpace(s[Len(s)]) THEN TrimEnd(SubSeq(s, 1, Len(s) - 1))
    ELSE s

\* String.prototype.trim
Trim(s) == TrimEnd(TrimStart(s))

\* s.substring(0, n)
Substring0(s, n) == SubSeq(s, 1, IF Len(s) < n THEN Len(s) ELSE n)

\* a || b on strings
OrElse(a, b) == IF a = <<>> THEN b ELSE a

-----------------------------------------------------------------------------
(* The code's own constants and message/record constructors *)

\* userInput.substring(0, 50)
TitleLen == 50

\* The title handleSend gives a conversation it creates
NewTitle(v, userInput) ==
    IF v = "A" THEN Substring0(userInput, TitleLen) ELSE <<"Conversation">>

\* if (!input.trim() || isLoading) return;   -- TRUE when the send goes ahead
SendGuard_NoTrim(inp, loading) == inp # <<>> /\ ~loading
SendGuard(inp, loading) == Trim(inp) # <<>> /\ ~loading

\* tempUserMessage (variant B)
TempUserMessage(userInput, cur, t) ==
    [id |-> t, role |-> "user", content |-> userInput,
     conversation_id |-> IF IsConversation(cur) THEN cur.id ELSE NoId]

\* errorMessage (variant B); msg is error.message
ErrorMessage(msg, cur, t) ==
    [id |-> t + 1, role |-> "assistant",
     content |-> <<"Error: ">> \o OrElse(msg, <<"Could not get response from AI">>),
     conversation_id |-> IF IsConversation(cur) THEN cur.id ELSE NoId]

\* new Error(`Failed to send message: ${response.status} - ${errorText}`).message
CreateMessageError(code, errorText) ==
    <<"Failed to send message: ", code, " - ">> \o errorText

\* setError(`Failed to send message: ${error.message || 'Please try again'}`)
SendErrorText_Bare(msg) == OrElse(msg, <<"Please try again">>)
SendErrorText(msg) ==
    <<"Failed to send message: ">> \o OrElse(msg, <<"Please try again">>)

\* setError('Failed to load messages')
LoadErrorText == <<"Failed to load messages">>

\* The message of the TypeError a fetch rejects with
NetworkErrorMessage == <<"Failed to fetch">>

\* setMessages((prev) => [...prev, m])
AppendMessage(prev, m) == Append(prev, m)

\* An array-typed state (messages, conversations) set to a parsed body.  The
\* body of a non-2xx response is an object; the state then holds that object,
\* written here as the one-element sequence <<ErrBody>>, which is no list of
\* messages or conversations.
Held(out, resp) == IF out = "bad" THEN <<resp>> ELSE resp

NotArray(x) == x # <<>> /\ x[1] = ErrBody

\* A render maps over messages and conversations: a value that is no array
\* throws in render and React unmounts the component.
Crashed == NotArray(messages) \/ NotArray(conversations)

-----------------------------------------------------------------------------
(* Requests in flight.  A request is the fetch an async function awaits,   *)
(* with the locals its continuation reads: userInput, the                  *)
(* currentConversation the handler's closure captured (cur0), the time     *)
(* handleSend read (t0).  created is history: how the send's               *)
(* create-conversation request ended ("none" when it made none); reply is  *)
(* handleSend's aiResponse once it has one; resp is the body of the 2xx    *)
(* answer once the backend has given one, an array for the two GETs.       *)

Request(kind, owner, cid, body, userInput, cur0, t0, created) ==
    [kind |-> kind, owner |-> owner, cid |-> cid, body |-> body,
     userInput |-> userInput, cur0 |-> cur0, t0 |-> t0, created |-> created,
     reply |-> Null, status |-> "sent",
     resp |-> IF kind \in {"list", "get"} THEN <<>> ELSE Null]

\* fetch(`${API_BASE_URL}/conversations/`)
ListRequest(owner) ==
    Request("list", owner, Undefined, <<>>, <<>>, Null, 0, "none")

\* fetch(`${API_BASE_URL}/conversations/${conversationId}/messages`)
GetRequest(owner, cid, userInput, cur0, t0, created) ==
    Request("get", owner, cid, <<>>, userInput, cur0, t0, created)

\* createConversation(title)
CreateRequest(title, userInput, cur0, t0) ==
    Request("create", "send", Undefined, title, userInput, cur0, t0, "none")

\* createMessage(conversationId, content)
PostRequest(cid, userInput, cur0, t0, created) ==
    Request("post", "send", cid, userInput, userInput, cur0, t0, created)

\* net without its i-th request
Without(q, i) == SubSeq(q, 1, i - 1) \o SubSeq(q, i + 1, Len(q))

-----------------------------------------------------------------------------
(* The backend, an external collaborator: a store of conversations and     *)
(* messages behind the four REST calls of spec.md section 6.               *)

InitConversations ==
    << [id |-> 1, title |-> <<"a">>] >>

InitMessages ==
    << [id |-> 1, role |-> "user", content |-> <<"a">>, conversation_id |-> 1],
       [id |-> 2, role |-> "assistant", content |-> <<"reply">>,
        conversation_id |-> 1] >>

\* Date.now() at mount: above every id the backend assigns
Epoch == Len(InitMessages) + 2 * MaxSends + 1

RECURSIVE MessagesOf(_, _)
MessagesOf(ms, cid) ==
    IF ms = <<>> THEN <<>>
    ELSE IF Head(ms).conversation_id = cid
         THEN <<Head(ms)>> \o MessagesOf(Tail(ms), cid)
         ELSE MessagesOf(Tail(ms), cid)

KnownId(cid) == \E k \in 1..Len(dbConversations) : dbConversations[k].id = cid

\* The conversation POST /conversations/ creates
CreatedConversation(title) == [id |-> Len(dbConversations) + 1, title |-> title]

\* The two messages POST /conversations/{id}/messages stores: the user's and
\* the assistant's reply; the reply is the response
StoredUserMessage(cid, content) ==
    [id |-> Len(dbMessages) + 1, role |-> "user", content |-> content,
     conversation_id |-> cid]
StoredReply(cid) ==
    [id |-> Len(dbMessages) + 2, role |-> "assistant", content |-> <<"reply">>,
     conversation_id |-> cid]

\* The 2xx response to request r, from the store as it is now
OkResponse(r) ==
    CASE r.kind = "list"   -> dbConversations
      [] r.kind = "get"    -> MessagesOf(dbMessages, r.cid)
      [] r.kind = "create" -> CreatedConversation(r.body)
      [] r.kind = "post"   -> StoredReply(r.cid)

\* Requests on a conversation need an id the store knows
CanSucceed(r) == r.kind \in {"get", "post"} => KnownId(r.cid)

\* The backend carries out the i-th request and answers 2xx; the answer is
\* computed from the store as it is at that moment and may reach the client
\* any time later.  Requests of an unmounted component are followed no
\* further.
BackendServe(i) ==
    /\ ~Crashed
    /\ i \in 1..Len(net)
    /\ net[i].status = "sent"
    /\ CanSucceed(net[i])
    /\ LET r == net[i] IN
       /\ net' = [net EXCEPT ![i] =
                    [r EXCEPT !.status = "ok", !.resp = OkResponse(r)]]
       /\ dbConversations' =
            IF r.kind = "create"
            THEN Append(dbConversations, CreatedConversation(r.body))
            ELSE dbConversations
       /\ dbMessages' =
            IF r.kind = "post"
            THEN dbMessages \o <<StoredUserMessage(r.cid, r.body), StoredReply(r.cid)>>
            ELSE dbMessages
    /\ ev' = [op |-> "step"]
    /\ UNCHANGED <<variant, hist, messages, input, conversations, currentConversation,
                   isLoading, error, now, nSends, nClicks>>

\* The status of a non-2xx answer to r: 422 for an id the store does not
\* know, else 500
BadCode(r) == IF CanSucceed(r) THEN "500" ELSE "422"

\* How the awaited fetch of request r can end: "ok", with the 2xx answer the
\* backend gave; "bad", with a non-2xx status and an error body, the store
\* untouched; "throw", by rejecting (a network error, a body that is not
\* JSON), also after the backend carried the request out.
Outcomes(r) == IF r.status = "sent" THEN {"bad", "throw"} ELSE {"ok", "throw"}

\* The parsed body the continuation of r sees when the fetch ended with out
Body(r, out) == IF out = "ok" THEN r.resp ELSE ErrBody

-----------------------------------------------------------------------------
(* Construction: the component is mounted with its initial state and the   *)
(* mount effect has called fetchConversations().                           *)

Init ==
    /\ variant \in Variants
    /\ messages = <<>>
    /\ input = <<>>
    /\ conversations = <<>>
    /\ currentConversation = Null
    /\ isLoading = FALSE
    /\ error = <<>>
    /\ net = <<ListRequest("mount")>>
    /\ dbConversations = InitConversations
    /\ dbMessages = InitMessages
    /\ now = Epoch
    /\ nSends = 0
    /\ nClicks = 0
    /\ ev = [op |-> "mount"]
    /\ hist = [newId |-> NoId, listFailed |-> FALSE]

-----------------------------------------------------------------------------
(* User events.  The UI is there only while the component is mounted.      *)

\* onChange of the textarea, which is disabled while isLoading
SetInput(s) ==
    /\ ~Crashed
    /\ ~isLoading
    /\ s \in Inputs
    /\ s # input
    /\ input' = s
    /\ ev' = [op |-> "step"]
    /\ UNCHANGED <<variant, hist, messages, conversations, currentConversation, isLoading,
                   error, net, dbConversations, dbMessages, now, nSends, nClicks>>

\* The request a send that passed the guard issues first
FirstSendRequest(v, cur, userInput, t) ==
    IF cur = Null
    THEN CreateRequest(NewTitle(v, userInput), userInput, cur, t)
    ELSE PostRequest(ConvId(cur), userInput, cur, t, "none")

\* setIsLoading(true) of handleSend
LoadingOnSend_Forgotten(loading) == loading
LoadingOnSend(loading) == TRUE

\* handleSend, called by Enter in the textarea (handleKeyDown, when not
\* isLoading) or by the Send button (enabled only when the guard passes), up to
\* its first await.
HandleSend ==
    /\ ~Crashed
    /\ ~isLoading
    /\ IF ~SendGuard(input, isLoading)
       THEN /\ ev' = [op |-> "handleSend", started |-> FALSE]
            /\ UNCHANGED <<variant, hist, messages, input, conversations,
                           currentConversation, isLoading, error, net,
                           dbConversations, dbMessages, now, nSends, nClicks>>
       ELSE /\ nSends < MaxSends
            /\ input' = <<>>
            /\ isLoading' = LoadingOnSend(isLoading)
            /\ error' = <<>>
            /\ messages' = IF variant = "B"
                           THEN AppendMessage(messages,
                                    TempUserMessage(input, currentConversation, now))
                           ELSE messages
            /\ net' = Append(net, FirstSendRequest(variant, currentConversation,
                                                   input, now))
            /\ now' = now + 3
            /\ nSends' = nSends + 1
            /\ ev' = [op |-> "handleSend", started |-> TRUE]
            /\ UNCHANGED <<variant, hist, conversations, currentConversation,
                           dbConversations, dbMessages, nClicks>>

\* conversations.find(c => c.id === conversationId) || null
RECURSIVE Find(_, _)
Find(cs, id) ==
    IF cs = <<>> THEN Null
    ELSE IF Head(cs).id = id THEN Head(cs)
    ELSE Find(Tail(cs), id)

\* setIsLoading(true) of fetchMessages (variant A); variant B's
\* handleConversationClick fetches without touching isLoading
LoadingOnFetch_Forgotten(v, loading) == loading
LoadingOnFetch(v, loading) == IF v = "A" THEN TRUE ELSE loading

\* onClick of the k-th conversation of the sidebar:
\* !isLoading && handleConversationClick(conversation.id), up to its await
HandleConversationClick(k) ==
    /\ ~Crashed
    /\ ~isLoading
    /\ nClicks < MaxClicks
    /\ k \in 1..Len(conversations)
    /\ LET id == conversations[k].id IN
       /\ currentConversation' = Find(conversations, id)
       /\ net' = Append(net, GetRequest("click", id, <<>>, Null, 0, "none"))
    /\ error' = <<>>
    /\ isLoading' = LoadingOnFetch(variant, isLoading)
    /\ nClicks' = nClicks + 1
    /\ ev' = [op |-> "handleConversationClick"]
    /\ UNCHANGED <<variant, hist, messages, input, conversations, dbConversations,
                   dbMessages, now, nSends>>

\* setInput('') of handleNewChat
NewChatInput_Kept(inp) == inp
NewChatInput(inp) == <<>>

\* onClick of "+ New Chat", disabled while isLoading
HandleNewChat ==
    /\ ~Crashed
    /\ ~isLoading
    /\ currentConversation' = Null
    /\ messages' = <<>>
    /\ input' = NewChatInput(input)
    /\ ev' = [op |-> "handleNewChat",
              cleared |-> messages # <<>> /\ input # <<>>
                          /\ currentConversation # Null]
    /\ UNCHANGED <<variant, hist, conversations, isLoading, error, net, dbConversations,
                   dbMessages, now, nSends, nClicks>>

\* onClick of the error banner's close button (variant A): setError('')
DismissError ==
    /\ ~Crashed
    /\ variant = "A"
    /\ error # <<>>
    /\ error' = <<>>
    /\ ev' = [op |-> "step"]
    /\ UNCHANGED <<variant, hist, messages, input, conversations, currentConversation,
                   isLoading, net, dbConversations, dbMessages, now, nSends, nClicks>>

-----------------------------------------------------------------------------
(* Continuations: what runs when an awaited fetch ends.  After a crash in  *)
(* render the component is unmounted and the model follows it no further.  *)

\* fetchConversations after its await: setConversations(data) whatever the
\* status, console.error when the fetch or response.json() rejects
ConversationsAfterList(cs, out, resp) ==
    IF out = "throw" THEN cs ELSE Held(out, resp)

ListDone(i, out) ==
    /\ ~Crashed
    /\ i \in 1..Len(net)
    /\ net[i].kind = "list"
    /\ out \in Outcomes(net[i])
    /\ conversations' = ConversationsAfterList(conversations, out, Body(net[i], out))
    /\ net' = Without(net, i)
    /\ ev' = [op |-> "listDone", owner |-> net[i].owner, out |-> out]
    /\ hist' = [hist EXCEPT !.listFailed = @ \/ out # "ok"]
    /\ UNCHANGED <<variant, messages, input, currentConversation, isLoading, error,
                   dbConversations, dbMessages, now, nSends, nClicks>>

\* messages after the GET of a conversation's messages ended with out:
\* variant A replaces them only when response.ok, variant B whenever
\* response.json() gave a value
MessagesAfterFetch_Append(v, prev, out, resp) ==
    IF out = "ok" \/ (v = "B" /\ out = "bad") THEN prev \o Held(out, resp) ELSE prev
MessagesAfterFetch(v, prev, out, resp) ==
    IF out = "ok" \/ (v = "B" /\ out = "bad") THEN Held(out, resp) ELSE prev

\* error after fetchMessages (variant A): '' on success, else
\* 'Failed to load messages'; variant B has no error state
ErrorAfterFetch(v, err, out) ==
    IF v = "B" THEN err
    ELSE IF out = "ok" THEN <<>> ELSE LoadErrorText

\* isLoading after the fetch: fetchMessages' finally (variant A)
LoadingAfterFetch(v, loading) == IF v = "A" THEN FALSE ELSE loading

\* History: the id of the conversation the latest completed send created,
\* when that send started with no conversation selected and did not fail
SentFrom(h, cur0, cid) == IF cur0 = Null THEN [h EXCEPT !.newId = cid] ELSE h

\* fetchMessages (A) / handleConversationClick (B) after the await of the
\* GET, and then the rest of the caller: nothing for a selection; for
\* handleSend (A), which awaited fetchMessages, its finally block.
GetDone(i, out) ==
    /\ ~Crashed
    /\ i \in 1..Len(net)
    /\ net[i].kind = "get"
    /\ out \in Outcomes(net[i])
    /\ LET r == net[i] IN
       /\ messages' = MessagesAfterFetch(variant, messages, out, Body(r, out))
       /\ error' = ErrorAfterFetch(variant, error, out)
       /\ isLoading' = LoadingAfterFetch(variant, isLoading)
       /\ net' = Without(net, i)
       /\ ev' = IF r.owner = "click"
                THEN [op |-> "clickDone", cid |-> r.cid, out |-> out,
                      body |-> Body(r, out), before |-> messages]
                ELSE [op |-> "sendDone", failed |-> FALSE,
                      userInput |-> r.userInput, cur0 |-> r.cur0, t0 |-> r.t0,
                      created |-> r.created, post |-> "ok", refetch |-> out,
                      reply |-> r.reply]
       /\ hist' = IF r.owner = "send" THEN SentFrom(hist, r.cur0, r.cid) ELSE hist
    /\ UNCHANGED <<variant, input, conversations, currentConversation,
                   dbConversations, dbMessages, now, nSends, nClicks>>

\* setInput(userInput) in handleSend's catch (variant A); variant B's catch
\* leaves the input alone
InputAfterFailedSend(v, inp, userInput) == IF v = "A" THEN userInput ELSE inp

\* handleSend's catch and finally, for a send whose request r failed with an
\* error whose message is msg.  The catch runs one tick after handleSend read
\* the clock, and the next handleSend later still.
SendCatch(r, i, msg, createdOut, postOut) ==
    /\ input' = InputAfterFailedSend(variant, input, r.userInput)
    /\ error' = IF variant = "A" THEN SendErrorText(msg) ELSE error
    /\ messages' = IF variant = "B"
                   THEN AppendMessage(messages, ErrorMessage(msg, r.cur0, r.t0 + 1))
                   ELSE messages
    /\ isLoading' = FALSE
    /\ net' = Without(net, i)
    /\ ev' = [op |-> "sendDone", failed |-> TRUE, userInput |-> r.userInput,
              cur0 |-> r.cur0, t0 |-> r.t0, created |-> createdOut, post |-> postOut,
              refetch |-> "none", reply |-> Null]
    /\ UNCHANGED <<variant, hist, conversations, currentConversation, dbConversations,
                   dbMessages, now, nSends, nClicks>>

\* handleSend after await createConversation(title): createConversation
\* returns response.json() whatever the status
CreateDone(i, out) ==
    /\ ~Crashed
    /\ i \in 1..Len(net)
    /\ net[i].kind = "create"
    /\ out \in Outcomes(net[i])
    /\ LET r == net[i] IN
       IF out = "throw"
       THEN SendCatch(r, i, NetworkErrorMessage, "throw", "none")
       ELSE /\ currentConversation' = Body(r, out)
            /\ net' = Without(net, i)
                        \o <<ListRequest("refresh"),
                             PostRequest(ConvId(Body(r, out)), r.userInput, r.cur0,
                                         r.t0, out)>>
            /\ ev' = [op |-> "createDone", out |-> out, body |-> Body(r, out)]
            /\ UNCHANGED <<variant, hist, messages, input, conversations, isLoading,
                           error, dbConversations, dbMessages, now, nSends,
                           nClicks>>

\* response.text() of a non-2xx response
ErrorText(resp) == resp.detail

\* handleSend after await createMessage(conversationId, userInput):
\* createMessage throws when !response.ok
PostDone(i, out) ==
    /\ ~Crashed
    /\ i \in 1..Len(net)
    /\ net[i].kind = "post"
    /\ out \in Outcomes(net[i])
    /\ LET r == net[i] IN
       CASE out = "throw" ->
              SendCatch(r, i, NetworkErrorMessage, r.created, "throw")
         [] out = "bad" ->
              SendCatch(r, i, CreateMessageError(BadCode(r), ErrorText(Body(r, out))),
                        r.created, "bad")
         [] out = "ok" /\ variant = "A" ->
              /\ isLoading' = LoadingOnFetch(variant, isLoading)
              /\ net' = Without(net, i)
                          \o <<[GetRequest("send", r.cid, r.userInput, r.cur0,
                                           r.t0, r.created)
                                  EXCEPT !.reply = r.resp]>>
              /\ ev' = [op |-> "postDone", out |-> out]
              /\ UNCHANGED <<variant, hist, messages, input, conversations,
                             currentConversation, error, dbConversations,
                             dbMessages, now, nSends, nClicks>>
         [] out = "ok" /\ variant = "B" ->
              /\ messages' = AppendMessage(messages, r.resp)
              /\ isLoading' = FALSE
              /\ net' = Without(net, i)
              /\ ev' = [op |-> "sendDone", failed |-> FALSE,
                        userInput |-> r.userInput, cur0 |-> r.cur0, t0 |-> r.t0,
                        created |-> r.created, post |-> "ok",
                        refetch |-> "none", reply |-> r.resp]
              /\ hist' = SentFrom(hist, r.cur0, r.cid)
              /\ UNCHANGED <<variant, input, conversations, currentConversation,
                             error, dbConversations, dbMessages, now, nSends,
                             nClicks>>

-----------------------------------------------------------------------------
(* The specification *)

OutcomeSet == {"ok", "bad", "throw"}

Next ==
    \/ \E s \in Inputs : SetInput(s)
    \/ HandleSend
    \/ \E k \in 1..Len(conversations) : HandleConversationClick(k)
    \/ HandleNewChat
    \/ DismissError
    \/ \E i \in 1..Len(net) : BackendServe(i)
    \/ \E i \in 1..Len(net), out \in OutcomeSet : ListDone(i, out)
    \/ \E i \in 1..Len(net), out \in OutcomeSet : GetDone(i, out)
    \/ \E i \in 1..Len(net), out \in OutcomeSet : CreateDone(i, out)
    \/ \E i \in 1..Len(net), out \in OutcomeSet : PostDone(i, out)

Spec == Init /\ [][Next]_vars

-----------------------------------------------------------------------------
(* Properties.  ev names the handler or continuation that took the last   *)
(* step, with the locals it held and, for a selection, the messages that   *)
(* were on display when its fetch ended; hist keeps what is needed of      *)
(* earlier steps.                                                          *)

SendRequests == {i \in 1..Len(net) : net[i].owner = "send"}
ClickRequests == {i \in 1..Len(net) : net[i].owner = "click"}
ListRequests == {i \in 1..Len(net) : net[i].kind = "list"}

\* C1: in both variants a call of handleSend with an empty or whitespace-only
\* input issues no request and changes none of input, messages,
\* currentConversation and isLoading.
C1_BlankSendIsNoOp ==
    [][(ev'.op = "handleSend" /\ Trim(input) = <<>>)
          => UNCHANGED <<input, messages, currentConversation, isLoading, net>>]_vars

\* handleSend has just returned at its guard on a whitespace-only input
C1_Witness ==
    /\ ev.op = "handleSend"
    /\ ~ev.started
    /\ input # <<>>
    /\ Trim(input) = <<>>

\* C2: in both variants, once handleConversationClick(id) has completed on a
\* successful response, messages is exactly the sequence the backend returned
\* for that GET, whatever was displayed before.
C2_ClickReplacesMessages ==
    (ev.op = "clickDone" /\ ev.out = "ok") => messages = ev.body

\* A selection has completed with a non-empty history, shown in place of
\* other messages that were on display
C2_Witness ==
    /\ ev.op = "clickDone"
    /\ ev.out = "ok"
    /\ ev.body # <<>>
    /\ ev.before # <<>>
    /\ ev.before # ev.body

\* C3 (as claimed): in both variants, after a completed send whose message
\* POST succeeded the thread holds the new user message and the reply, and
\* every earlier message of the conversation exactly once.
C3_ThreadAfterSend ==
    (ev.op = "sendDone" /\ ev.post = "ok") =>
        /\ \E i \in 1..Len(messages) :
              /\ messages[i].role = "user"
              /\ messages[i].content = ev.userInput
              /\ messages[i].id \in {ev.reply.id - 1, ev.t0}
        /\ \E i \in 1..Len(messages) : messages[i] = ev.reply
        /\ \A i, j \in 1..Len(messages) : messages[i].id = messages[j].id => i = j
        /\ \A k \in 1..Len(dbMessages) :
              (/\ dbMessages[k].conversation_id = ev.reply.conversation_id
               /\ dbMessages[k].id < ev.reply.id - 1)
              => \E i \in 1..Len(messages) : messages[i] = dbMessages[k]

\* C4 (as claimed): in both variants, after a failed send the input holds
\* the text it held when the send started.
C4_FailedSendRestoresInput ==
    (ev.op = "sendDone" /\ ev.failed) => input = ev.userInput

\* C5 (as claimed): in both variants, after a failed send currentConversation
\* is what it was when the send started.
C5_FailedSendKeepsSelection ==
    (ev.op = "sendDone" /\ ev.failed) => currentConversation = ev.cur0

\* C6: in both variants handleNewChat leaves messages empty, input empty and
\* currentConversation null.
C6_NewChatClears ==
    ev.op = "handleNewChat" =>
        messages = <<>> /\ input = <<>> /\ currentConversation = Null

\* handleNewChat has run on a state with messages, input text and a selection
C6_Witness == ev.op = "handleNewChat" /\ ev.cleared

C8_OneUserSequenceInFlight == Cardinality(SendRequests \cup ClickRequests) <= 1

\* C9 (as claimed): in both variants a non-2xx answer to the GET of a
\* conversation's messages leaves messages an array that is not the response
\* body, and an error is shown.
C9_BadFetchFails ==
    ((ev.op = "clickDone" /\ ev.out = "bad")
       \/ (ev.op = "sendDone" /\ ev.refetch = "bad"))
    => (~NotArray(messages) /\ error # <<>>)

\* The thread ends with the message handleSend's catch appends (variant B)
ShowsErrorMessage ==
    /\ variant = "B"
    /\ ~NotArray(messages)
    /\ messages # <<>>
    /\ messages[Len(messages)].role = "assistant"
    /\ Head(messages[Len(messages)].content) = "Error: "

\* The step just taken ended an operation one of whose requests failed
OperationFailed ==
    \/ ev.op = "listDone" /\ ev.out # "ok"
    \/ ev.op = "clickDone" /\ ev.out # "ok"
    \/ ev.op = "sendDone" /\ (ev.failed \/ ev.refetch \in {"bad", "throw"})

\* C10 (as claimed): when an operation ends on a failed request, a non-empty
\* error string is on display.
C10_FailureShowsError == OperationFailed => (error # <<>> \/ ShowsErrorMessage)

-----------------------------------------------------------------------------
(* Every issued request eventually completes: the continuation of each     *)
(* awaited fetch runs in the end, as long as the component is mounted.     *)

Fairness ==
    /\ WF_vars(\E i \in 1..Len(net), out \in OutcomeSet : ListDone(i, out))
    /\ WF_vars(\E i \in 1..Len(net), out \in OutcomeSet : GetDone(i, out))
    /\ WF_vars(\E i \in 1..Len(net), out \in OutcomeSet : CreateDone(i, out))
    /\ WF_vars(\E i \in 1..Len(net), out \in OutcomeSet : PostDone(i, out))

FairSpec == Spec /\ Fairness

\* A send is in progress: handleSend awaits one of its requests
SendInProgress == SendRequests # {}

\* The steps of handleSend
SendSteps == {"handleSend", "createDone", "postDone", "sendDone"}

\* C11 (as claimed), first part: isLoading is false initially and true for
\* the whole time a send is in progress.
C11_LoadingWhileSending ==
    /\ ev.op = "mount" => ~isLoading
    /\ SendInProgress => isLoading

\* C11 (as claimed), second part: every send that starts eventually returns
\* isLoading to false, when every issued request eventually completes.
C11_SendReturnsToIdle == SendInProgress ~> ~isLoading

\* C11, second part, as far as the code goes: a send that starts returns
\* isLoading to false unless a render error has unmounted the component
\* first.
C11_SendReturnsToIdleWhileMounted == SendInProgress ~> (~isLoading \/ Crashed)

\* C11 (as claimed), third part: isLoading is changed by no operation other
\* than a send.
C11_OnlySendsChangeLoading ==
    [][isLoading' # isLoading => ev'.op \in SendSteps]_vars

\* What the thread shows of a list of messages: roles and contents, not the
\* ids, which the optimistic message of variant B takes from the clock
Shown(ms) == [i \in 1..Len(ms) |-> <<ms[i].role, ms[i].content>>]

\* C12 (as claimed): the two variants are equivalent but for the optimistic
\* insertion.  Variant A is the reference: whichever variant is mounted
\* issues the create-conversation body A issues, is loading after a selection
\* as A is, holds after a failed send the input A holds, and shows after a
\* completed send what A shows, the conversation's messages as the backend
\* has them.
C12_VariantsAgree ==
    /\ \A i \in 1..Len(net) :
          net[i].kind = "create" => net[i].body = NewTitle("A", net[i].userInput)
    /\ ev.op = "handleConversationClick" => isLoading = LoadingOnFetch("A", FALSE)
    /\ (ev.op = "sendDone" /\ ev.failed)
          => input = InputAfterFailedSend("A", input, ev.userInput)
    /\ (ev.op = "sendDone" /\ ~ev.failed /\ ev.refetch \in {"ok", "none"})
          => Shown(messages)
               = Shown(MessagesOf(dbMessages, ev.reply.conversation_id))

\* The request the send in progress awaits: its kind ("none" when no send
\* is in progress) and the conversation id it targets
SendKind ==
    IF SendRequests = {} THEN "none"
    ELSE net[CHOOSE i \in SendRequests : TRUE].kind
SendCid ==
    IF SendRequests = {} THEN Undefined
    ELSE net[CHOOSE i \in SendRequests : TRUE].cid

\* C13 (as claimed): within one send the requests are ordered and never
\* repeated.  A send starts with one create-conversation POST when no
\* conversation is selected and else with the message POST to the selected
\* id; it goes on after the creation only when that succeeded, with the one
\* message POST to the id the creation returned; in variant A it goes on
\* after the message POST only when that succeeded, with the refetch of the
\* same id; and a send that ends, failed or not, issues no further request.
C13_RequestsOrdered ==
    [][ev'.op \in SendSteps =>
         CASE ev'.op = "handleSend" /\ ~ev'.started -> UNCHANGED net
           [] ev'.op = "handleSend" /\ ev'.started ->
                /\ SendKind = "none"
                /\ Len(net') = Len(net) + 1
                /\ IF currentConversation = Null
                   THEN SendKind' = "create"
                   ELSE /\ IsConversation(currentConversation)
                        /\ SendKind' = "post"
                        /\ SendCid' = currentConversation.id
           [] ev'.op = "createDone" ->
                /\ SendKind = "create"
                /\ ev'.out = "ok"
                /\ SendKind' = "post"
                /\ SendCid' = ev'.body.id
           [] ev'.op = "postDone" ->
                /\ variant = "A"
                /\ SendKind = "post"
                /\ ev'.out = "ok"
                /\ SendKind' = "get"
                /\ SendCid' = SendCid
                /\ Len(net') = Len(net)
           [] ev'.op = "sendDone" ->
                /\ SendKind' = "none"
                /\ Len(net') = Len(net) - 1
                /\ ev'.failed => SendKind \in {"create", "post"}
       ]_vars

\* The thread ends with the optimistic message of the send that read the
\* clock at t, followed by the messages in tail
EndsWithOptimistic(ms, userInput, t, tail) ==
    LET n == Len(ms) - Len(tail) IN
    /\ n >= 1
    /\ ms[n].id = t
    /\ ms[n].role = "user"
    /\ ms[n].content = userInput
    /\ SubSeq(ms, n + 1, Len(ms)) = tail

\* C14 (as claimed): in variant B a send that passed the guard has appended
\* the user's message to the end of the thread before any response; when it
\* has succeeded the thread ends with that message and the returned message,
\* when it has failed with that message and an assistant message whose
\* content starts with "Error: ".
C14_OptimisticAppend ==
    variant = "B" =>
      /\ (ev.op = "handleSend" /\ ev.started) =>
            \E i \in SendRequests :
               EndsWithOptimistic(messages, net[i].userInput, net[i].t0, <<>>)
      /\ (ev.op = "sendDone" /\ ~ev.failed) =>
            EndsWithOptimistic(messages, ev.userInput, ev.t0, <<ev.reply>>)
      /\ (ev.op = "sendDone" /\ ev.failed) =>
            /\ messages # <<>>
            /\ messages[Len(messages)].role = "assistant"
            /\ Head(messages[Len(messages)].content) = "Error: "
            /\ EndsWithOptimistic(messages, ev.userInput, ev.t0,
                                  <<messages[Len(messages)]>>)

\* C15: in variant A a failed send (the creation or the message POST failed)
\* leaves messages as they were before the send, sets error to a text that
\* starts with "Failed to send message" and ends with isLoading false.
\* messages as before: from the start of a send to its end no step changes
\* messages, but the end of a send that did not fail.
C15_FailedSendInA ==
    /\ []((variant = "A" /\ ev.op = "sendDone" /\ ev.failed) =>
             /\ error # <<>>
             /\ Head(error) = "Failed to send message: "
             /\ ~isLoading)
    /\ [][(/\ variant = "A"
           /\ SendInProgress \/ SendInProgress'
           /\ ~(ev'.op = "sendDone" /\ ~ev'.failed))
            => messages' = messages]_vars

\* A send of variant A has failed with messages on display
C15_Witness ==
    /\ variant = "A"
    /\ ev.op = "sendDone"
    /\ ev.failed
    /\ messages # <<>>

\* C16 (as claimed): in both variants, whenever no request is outstanding,
\* the messages on display all belong to the selected conversation, and none
\* is on display when no conversation is selected.
C16_MessagesBelongToSelection ==
    net = <<>> =>
      /\ ~NotArray(messages)
      /\ IsConversation(currentConversation) =>
            \A i \in 1..Len(messages) :
               messages[i].conversation_id = currentConversation.id
      /\ currentConversation = Null => messages = <<>>

\* C17 (as claimed): in both variants a message POST goes only to the id of
\* the conversation selected when the send started or to the id of a
\* conversation whose creation succeeded, and currentConversation is never
\* the body of a failed creation.
C17_PostOnlyToValidId ==
    /\ \A i \in 1..Len(net) :
          net[i].kind = "post" =>
             \/ /\ IsConversation(net[i].cur0)
                /\ net[i].cid = net[i].cur0.id
             \/ /\ net[i].cur0 = Null
                /\ net[i].created = "ok"
                /\ KnownId(net[i].cid)
    /\ currentConversation = Null \/ IsConversation(currentConversation)

\* cs holds a conversation with this id
Contains(cs, id) == \E k \in 1..Len(cs) : cs[k].id = id

\* C18 (as claimed): in both variants, when a send that started with no
\* conversation selected has succeeded, currentConversation is the
\* conversation it created, and once every list fetch has completed, all of
\* them successfully, the sidebar holds the conversation the latest such send
\* created, in whatever order the list fetches were answered.
C18_SidebarHoldsNewConversation ==
    /\ (ev.op = "sendDone" /\ ~ev.failed /\ ev.cur0 = Null) =>
          /\ IsConversation(currentConversation)
          /\ currentConversation.id = ev.reply.conversation_id
    /\ (hist.newId # NoId /\ ListRequests = {} /\ ~hist.listFailed) =>
          Contains(conversations, hist.newId)

=============================================================================
